---- MODULE Spec2Model ----
(***************************************************************************)
(* Model of convert_qa.py: convert_txt_to_json reads a QA text document,   *)
(* segments it with one regular expression (re.findall, DOTALL), builds a  *)
(* record per match (int / strip / re.sub), sorts the records by id and    *)
(* dumps them as a JSON array.                                             *)
(*                                                                         *)
(* A text is a sequence of characters; a character is a one-token string.  *)
(* The regular expression is modelled by the choices a backtracking        *)
(* matcher makes, in its priority order: a greedy quantifier takes the     *)
(* largest count for which the rest of the pattern succeeds, a lazy one    *)
(* the smallest.                                                           *)
(***************************************************************************)
EXTENDS Integers, Sequences, FiniteSets, TLC

\* ---------------------------------------------------------------- bounds
MaxEntries == 2

\* ------------------------------------------------------------ characters
HW == ":"
FW == "FW"
SP == " "
TAB == "TAB"
CR == "CR"
LF == "LF"
EOL == "EOL"

DigitVal == [c \in {"0", "1", "2", "3", "4", "5", "6", "7", "8", "9"} |->
               CASE c = "0" -> 0 [] c = "1" -> 1 [] c = "2" -> 2 [] c = "3" -> 3
                 [] c = "4" -> 4 [] c = "5" -> 5 [] c = "6" -> 6 [] c = "7" -> 7
                 [] c = "8" -> 8 [] c = "9" -> 9]

IsDigit(c) == c \in DOMAIN DigitVal
IsColon(c) == c \in {HW, FW}
IsSpace(c) == c \in {SP, TAB, CR, LF}

Min(S) == CHOOSE x \in S : \A y \in S : x <= y
Max(S) == CHOOSE x \in S : \A y \in S : x >= y

At(s, p) == IF p \in 1..Len(s) THEN s[p] ELSE "EOF"

\* ------------------------------------------------- the regular expression
RECURSIVE SpaceRun(_, _)
SpaceRun(s, p) == IF IsSpace(At(s, p)) THEN 1 + SpaceRun(s, p + 1) ELSE 0

RECURSIVE DigitRun(_, _)
DigitRun(s, p) == IF IsDigit(At(s, p)) THEN 1 + DigitRun(s, p + 1) ELSE 0

\* \r?\n at p: the position after it, 0 when it does not match
EolEnd(s, p) ==
  IF p = 0 THEN 0
  ELSE IF At(s, p) = CR /\ At(s, p + 1) = LF THEN p + 2
  ELSE IF At(s, p) = LF THEN p + 1
  ELSE 0

\* Q\d+[:] at p
QMarkerAt(s, p) ==
  /\ p # 0
  /\ At(s, p) = "Q"
  /\ \E k \in 1..DigitRun(s, p + 1) : IsColon(At(s, p + 1 + k))

\* (?=\r?\n\r?\nQ\d+[:]|\r?\n\r?\n\r?\n|\Z) at p
LookAhead(s, p) ==
  \/ QMarkerAt(s, EolEnd(s, EolEnd(s, p)))
  \/ EolEnd(s, EolEnd(s, EolEnd(s, p))) # 0
  \/ p = Len(s) + 1

NoMatch == [start |-> 0, idFrom |-> 0, idTo |-> 0, qFrom |-> 0, qTo |-> 0,
            aSep |-> 0, aFrom |-> 0, end |-> 0]

\* t maps each choice of a quantifier to the match the rest of the pattern
\* finds after it (NoMatch when it fails).  A greedy quantifier gives up
\* characters one by one, so the largest succeeding choice wins; a lazy one
\* takes characters one by one, so the smallest wins.
Greedy(t) ==
  IF \A c \in DOMAIN t : t[c].end = 0 THEN NoMatch
  ELSE t[Max({c \in DOMAIN t : t[c].end # 0})]

Lazy(t) ==
  IF \A c \in DOMAIN t : t[c].end = 0 THEN NoMatch
  ELSE t[Min({c \in DOMAIN t : t[c].end # 0})]

\* (.+?)(?=...) : the answer body (group 3) starts at p
ABody(s, p) ==
  Lazy([e \in (p + 1)..(Len(s) + 1) |->
          IF LookAhead(s, e) THEN [NoMatch EXCEPT !.aFrom = p, !.end = e]
          ELSE NoMatch])

WithSep(p, m) == IF m.end = 0 THEN NoMatch ELSE [m EXCEPT !.aSep = p]

\* \s*(.+?)(?=...) at p, right after the answer separator
AfterASep(s, p) ==
  Greedy([w \in 0..SpaceRun(s, p) |-> WithSep(p, ABody(s, p + w))])

\* A\d+[:] at p and the rest
AMarker(s, p) ==
  IF At(s, p) # "A" THEN NoMatch
  ELSE Greedy([k \in 1..DigitRun(s, p + 1) |->
                 IF IsColon(At(s, p + 1 + k)) THEN AfterASep(s, p + 2 + k)
                 ELSE NoMatch])

\* \s*A\d+[:]... at e, right after the line break that ends the question
AfterEol(s, e) ==
  Greedy([w \in 0..SpaceRun(s, e) |-> AMarker(s, e + w)])

\* \r?\n\s*A\d+[:]... at p, right after the question body
AfterQBody(s, p) ==
  IF EolEnd(s, p) = 0 THEN NoMatch ELSE AfterEol(s, EolEnd(s, p))

WithQuestion(p, e, m) ==
  IF m.end = 0 THEN NoMatch ELSE [m EXCEPT !.qFrom = p, !.qTo = e - 1]

\* (.+?) and the rest: the question body (group 2) starts at p
QBody(s, p) ==
  Lazy([e \in (p + 1)..(Len(s) + 1) |-> WithQuestion(p, e, AfterQBody(s, e))])

\* \s*(.+?)... at p, right after the question separator
AfterQSep(s, p) ==
  Greedy([w \in 0..SpaceRun(s, p) |-> QBody(s, p + w)])

WithId(i, k, m) ==
  IF m.end = 0 THEN NoMatch
  ELSE [m EXCEPT !.start = i, !.idFrom = i + 1, !.idTo = i + k]

\* the whole pattern anchored at i: Q(\d+)[:] and the rest
MatchAt(s, i) ==
  IF At(s, i) # "Q" THEN NoMatch
  ELSE Greedy([k \in 1..DigitRun(s, i + 1) |->
                 IF IsColon(At(s, i + 1 + k))
                 THEN WithId(i, k, AfterQSep(s, i + 2 + k))
                 ELSE NoMatch])

\* the leftmost match starting at or after from
Search(s, from) == Lazy([i \in from..Len(s) |-> MatchAt(s, i)])

\* re.findall: non-overlapping matches, left to right
RECURSIVE FindAllFrom(_, _)
Collect(s, m) ==
  IF m.end = 0 THEN << >> ELSE << m >> \o FindAllFrom(s, m.end)

FindAllFrom(s, from) == Collect(s, Search(s, from))

FindAll(s) == FindAllFrom(s, 1)

Group1(s, m) == SubSeq(s, m.idFrom, m.idTo)
Group2(s, m) == SubSeq(s, m.qFrom, m.qTo)
Group3(s, m) == SubSeq(s, m.aFrom, m.end - 1)

\* ------------------------------------------------------ record building
\* int(match[0])
RECURSIVE IntOf(_)
IntOf(ds) ==
  IF ds = << >> THEN 0
  ELSE 10 * IntOf(SubSeq(ds, 1, Len(ds) - 1)) + DigitVal[ds[Len(ds)]]

RECURSIVE LStrip(_)
LStrip(s) ==
  IF s # << >> /\ IsSpace(Head(s)) THEN LStrip(Tail(s)) ELSE s

RECURSIVE RStrip(_)
RStrip(s) ==
  IF s # << >> /\ IsSpace(s[Len(s)]) THEN RStrip(SubSeq(s, 1, Len(s) - 1)) ELSE s

\* variant: only the leading whitespace is removed
Strip_LeftOnly(s) == LStrip(s)

\* str.strip()
Strip(s) == RStrip(LStrip(s))

\* re.sub(r'\r?\n\s*', '', s), scanning from position p
RECURSIVE ReSubFrom(_, _)
ReSubFrom(s, p) ==
  IF p > Len(s) THEN << >>
  ELSE IF EolEnd(s, p) # 0
       THEN ReSubFrom(s, EolEnd(s, p) + SpaceRun(s, EolEnd(s, p)))
       ELSE << s[p] >> \o ReSubFrom(s, p + 1)

\* variant: the pattern is \r?\n, the whitespace after the break stays
RECURSIVE ReSubEolOnlyFrom(_, _)
ReSubEolOnlyFrom(s, p) ==
  IF p > Len(s) THEN << >>
  ELSE IF EolEnd(s, p) # 0
       THEN ReSubEolOnlyFrom(s, EolEnd(s, p))
       ELSE << s[p] >> \o ReSubEolOnlyFrom(s, p + 1)

ReSub_EolOnly(s) == ReSubEolOnlyFrom(s, 1)

ReSub(s) == ReSubFrom(s, 1)

\* the body of the for loop: one match to one record
MakeRecord(s, m) ==
  [id       |-> IntOf(Group1(s, m)),
   question |-> Strip(Group2(s, m)),
   answer   |-> ReSub(Strip(Group3(s, m)))]

\* variant: an element goes before the elements with an equal key
RECURSIVE InsertById_Unstable(_, _)
InsertById_Unstable(l, r) ==
  IF l = << >> THEN << r >>
  ELSE IF l[Len(l)].id < r.id THEN Append(l, r)
  ELSE Append(InsertById_Unstable(SubSeq(l, 1, Len(l) - 1), r), l[Len(l)])

\* list.sort(key=id): stable, an element goes after every element whose
\* key is not greater than its own
RECURSIVE InsertById(_, _)
InsertById(l, r) ==
  IF l = << >> THEN << r >>
  ELSE IF l[Len(l)].id <= r.id THEN Append(l, r)
  ELSE Append(InsertById(SubSeq(l, 1, Len(l) - 1), r), l[Len(l)])

RECURSIVE SortById(_)
SortById(l) ==
  IF l = << >> THEN << >>
  ELSE InsertById(SortById(SubSeq(l, 1, Len(l) - 1)), l[Len(l)])

\* variant: nothing but null is written for an empty list
JsonDump_NullWhenEmpty(l) ==
  IF l = << >> THEN [kind |-> "null", items |-> << >>]
  ELSE [kind  |-> "array",
        items |-> [i \in 1..Len(l) |-> << l[i].id, l[i].question, l[i].answer >>]]

\* json.dump(qa_list, f): an array of objects with the keys id, question,
\* answer in this order
JsonDump(l) ==
  [kind  |-> "array",
   items |-> [i \in 1..Len(l) |-> << l[i].id, l[i].question, l[i].answer >>]]

Absent == [kind |-> "absent", items |-> << >>]
OldFile == [kind |-> "old", items |-> << >>]

RECURSIVE BuildFrom(_, _, _)
BuildFrom(s, ms, i) ==
  IF i > Len(ms) THEN << >>
  ELSE << MakeRecord(s, ms[i]) >> \o BuildFrom(s, ms, i + 1)

\* the record list convert_txt_to_json returns for the text s
Extract(s) == SortById(BuildFrom(s, FindAll(s), 1))

\* ------------------------------------------------------- input documents
\* The input follows the convention of the comment above the pattern:
\* Q<n><colon><question> line break A<n><colon><answer>, the entries separated
\* by blank lines.  EOL inside a text stands for the document's line ending.
Entry(qd, qc, qt, ad, ac, at) ==
  [kind |-> "QA", qd |-> qd, qc |-> qc, qt |-> qt, ad |-> ad, ac |-> ac, at |-> at]

QuestionOnly(qd, qc, qt) ==
  [kind |-> "Q", qd |-> qd, qc |-> qc, qt |-> qt, ad |-> << >>, ac |-> qc, at |-> << >>]

Templates ==
  { Entry(<< "1" >>, HW, << "x" >>, << "1" >>, HW, << "y" >>),
    Entry(<< "2" >>, FW, << "x" >>, << "2" >>, FW, << "z" >>),
    Entry(<< "1" >>, FW, << SP, "w", SP >>, << "7" >>, HW,
          << SP, "y", SP, EOL, TAB, "z", SP >>),
    Entry(<< "1", "0" >>, HW, << "x" >>, << "1", "0" >>, HW, << "y" >>),
    Entry(<< "2" >>, HW, << "x" >>, << "2" >>, HW, << SP >>),
    Entry(<< "3" >>, FW, << "x" >>, << "3" >>, FW, << >>),
    Entry(<< "3" >>, HW, << SP >>, << "3" >>, HW, << "y" >>),
    QuestionOnly(<< "2" >>, HW, << "x" >>) }

LineEndings == { << LF >>, << CR, LF >> }
BlankLines == {1, 2}

RECURSIVE BlockSeqs(_)
BlockSeqs(n) ==
  IF n = 0 THEN { << >> }
  ELSE BlockSeqs(n - 1)
       \cup { Append(bs, b) : bs \in {x \in BlockSeqs(n - 1) : Len(x) = n - 1},
                              b \in Templates }

Docs == [blocks : BlockSeqs(MaxEntries), eol : LineEndings,
         blanks : BlankLines, trail : BOOLEAN]

RECURSIVE Expand(_, _)
Expand(t, eol) ==
  IF t = << >> THEN << >>
  ELSE (IF Head(t) = EOL THEN eol ELSE << Head(t) >>) \o Expand(Tail(t), eol)

RECURSIVE Repeat(_, _)
Repeat(t, n) == IF n = 0 THEN << >> ELSE t \o Repeat(t, n - 1)

BlockText(b, eol) ==
  << "Q" >> \o b.qd \o << b.qc >> \o Expand(b.qt, eol)
  \o (IF b.kind = "QA"
      THEN eol \o << "A" >> \o b.ad \o << b.ac >> \o Expand(b.at, eol)
      ELSE << >>)

\* the first n blocks, each but the first preceded by the blank lines
RECURSIVE BlocksText(_, _)
BlocksText(d, n) ==
  IF n = 0 THEN << >>
  ELSE BlocksText(d, n - 1)
       \o (IF n > 1 THEN Repeat(d.eol, d.blanks + 1) ELSE << >>)
       \o BlockText(d.blocks[n], d.eol)

Render(d) ==
  BlocksText(d, Len(d.blocks)) \o (IF d.trail THEN d.eol ELSE << >>)

\* the position of the question marker of block k in Render(d)
BlockStart(d, k) ==
  Len(BlocksText(d, k - 1)) + (IF k > 1 THEN Len(Repeat(d.eol, d.blanks + 1)) ELSE 0) + 1

\* ------------------------------------------------------------ the program
VARIABLES doc, inputState, outFile, pc, content, matches, idx, qa_list,
          exitStatus, printed, returned

vars == << doc, inputState, outFile, pc, content, matches, idx, qa_list,
           exitStatus, printed, returned >>

NotReturned == [set |-> FALSE, value |-> << >>]

Init ==
  /\ \/ inputState = "ok" /\ doc \in Docs
     \/ /\ inputState \in {"missing", "unreadable"}
        /\ doc \in {d \in Docs : d.blocks = << >> /\ ~d.trail}
  /\ outFile \in {Absent, OldFile}
  /\ pc = "read"
  /\ content = << >>
  /\ matches = << >>
  /\ idx = 1
  /\ qa_list = << >>
  /\ exitStatus = 0
  /\ printed = "none"
  /\ returned = NotReturned

\* variant: the error is printed and the conversion goes on
OnFileNotFound_Continue == "findall"

\* what the process does when open() raises FileNotFoundError: sys.exit(1)
OnFileNotFound == "exited"

\* with open(input_file) as f: content = f.read()
ReadOk ==
  /\ pc = "read"
  /\ inputState = "ok"
  /\ content' = Render(doc)
  /\ pc' = "findall"
  /\ UNCHANGED << doc, inputState, outFile, matches, idx, qa_list,
                  exitStatus, printed, returned >>

\* except FileNotFoundError: print(...); sys.exit(1)
ReadNotFound ==
  /\ pc = "read"
  /\ inputState = "missing"
  /\ printed' = "error"
  /\ pc' = OnFileNotFound
  /\ exitStatus' = IF OnFileNotFound = "exited" THEN 1 ELSE exitStatus
  /\ UNCHANGED << doc, inputState, outFile, content, matches, idx, qa_list,
                  returned >>

\* any other exception of open()/read() is not caught: the interpreter
\* prints the traceback and the process ends with status 1
ReadError ==
  /\ pc = "read"
  /\ inputState = "unreadable"
  /\ printed' = "traceback"
  /\ pc' = "exited"
  /\ exitStatus' = 1
  /\ UNCHANGED << doc, inputState, outFile, content, matches, idx, qa_list,
                  returned >>

\* matches = re.findall(pattern, content, re.DOTALL)
FindMatches ==
  /\ pc = "findall"
  /\ matches' = FindAll(content)
  /\ idx' = 1
  /\ pc' = "loop"
  /\ UNCHANGED << doc, inputState, outFile, content, qa_list, exitStatus,
                  printed, returned >>

\* for match in matches: ... qa_list.append({...})
LoopBody ==
  /\ pc = "loop"
  /\ idx <= Len(matches)
  /\ qa_list' = Append(qa_list, MakeRecord(content, matches[idx]))
  /\ idx' = idx + 1
  /\ UNCHANGED << doc, inputState, outFile, pc, content, matches, exitStatus,
                  printed, returned >>

\* qa_list.sort(key=lambda x: x['id'])
Sort ==
  /\ pc = "loop"
  /\ idx > Len(matches)
  /\ qa_list' = SortById(qa_list)
  /\ pc' = "write"
  /\ UNCHANGED << doc, inputState, outFile, content, matches, idx, exitStatus,
                  printed, returned >>

\* json.dump(qa_list, f, ...); print(...); return qa_list
WriteAndReturn ==
  /\ pc = "write"
  /\ outFile' = JsonDump(qa_list)
  /\ printed' = "success"
  /\ returned' = [set |-> TRUE, value |-> qa_list]
  /\ pc' = "done"
  /\ UNCHANGED << doc, inputState, content, matches, idx, qa_list, exitStatus >>

Next ==
  \/ ReadOk
  \/ ReadNotFound
  \/ ReadError
  \/ FindMatches
  \/ LoopBody
  \/ Sort
  \/ WriteAndReturn

Spec == Init /\ [][Next]_vars

\* ================================================================ claims
\* the records of the matches, in document order, before the sort
Built == [i \in 1..Len(matches) |-> MakeRecord(content, matches[i])]

Bijections(n) == {f \in [1..n -> 1..n] : \A i, j \in 1..n : i # j => f[i] # f[j]}

\* C1: the returned list is the stable sort by id of the records built from
\* the matches in document order: ids are non-decreasing, every built record
\* appears exactly once (none dropped, merged or duplicated), and records
\* with the same id keep the order of their matches.
C1_StableSortById ==
  pc = "done" =>
    /\ Len(returned.value) = Len(matches)
    /\ \E f \in Bijections(Len(matches)) :
         /\ \A i \in 1..Len(matches) : returned.value[i] = Built[f[i]]
         /\ \A i, j \in 1..Len(matches) :
              i < j => /\ returned.value[i].id <= returned.value[j].id
                       /\ (returned.value[i].id = returned.value[j].id => f[i] < f[j])

C1_Witness ==
  /\ pc = "done"
  /\ \E i, j \in 1..Len(matches) : i < j /\ Built[i].id > Built[j].id
  /\ returned.value # Built

\* ------------------------------------------------------------------ C2
WellFormed(b) == b.kind = "QA" /\ b.qt # << >> /\ b.at # << >>

\* C2: a document of exactly N well-formed entries (non-empty question text,
\* line break, non-empty answer text) separated by blank lines yields
\* exactly N records.
C2_CountOfWellFormed ==
  (pc = "done" /\ \A k \in 1..Len(doc.blocks) : WellFormed(doc.blocks[k]))
    => Len(returned.value) = Len(doc.blocks)

\* ------------------------------------------------------------------ C3
\* C3: a question marker whose text reaches a record boundary or the end of
\* the document without an answer marker opens no match, so no record is
\* built from it, whatever follows.
C3_MalformedYieldsNoRecord ==
  pc = "done" =>
    \A k \in 1..Len(doc.blocks) :
      doc.blocks[k].kind = "Q" =>
        \A i \in 1..Len(matches) : matches[i].start # BlockStart(doc, k)

\* ------------------------------------------------------------------ C4
NoEdgeSpace(t) == t = << >> \/ (~IsSpace(t[1]) /\ ~IsSpace(t[Len(t)]))

\* C4: no question and no answer of a record begins or ends with a
\* whitespace character; the trimmed answer before the line-break removal
\* does not either.
C4_FieldsTrimmed ==
  /\ \A i \in 1..Len(qa_list) :
       NoEdgeSpace(qa_list[i].question) /\ NoEdgeSpace(qa_list[i].answer)
  /\ \A i \in 1..Len(returned.value) :
       NoEdgeSpace(returned.value[i].question) /\ NoEdgeSpace(returned.value[i].answer)
  /\ \A i \in 1..Len(matches) : NoEdgeSpace(Strip(Group3(content, matches[i])))

C4_Witness ==
  /\ pc = "done"
  /\ \E i \in 1..Len(matches) :
       LET q == Group2(content, matches[i])
           a == Group3(content, matches[i])
       IN /\ IsSpace(q[Len(q)])
          /\ IsSpace(a[Len(a)])
          /\ \E k \in 1..Len(a) : a[k] = LF

\* ------------------------------------------------------------------ C5
\* a character of t is deleted when it is part of a line break or lies in
\* the whitespace run that follows one
Deleted(t, k) ==
  \/ t[k] = LF
  \/ t[k] = CR /\ At(t, k + 1) = LF
  \/ IsSpace(t[k]) /\ \E j \in 1..(k - 1) :
                        t[j] = LF /\ \A i \in j..k : IsSpace(t[i])

RECURSIVE KeepFrom(_, _)
KeepFrom(t, k) ==
  IF k > Len(t) THEN << >>
  ELSE (IF Deleted(t, k) THEN << >> ELSE << t[k] >>) \o KeepFrom(t, k + 1)

\* C5: no answer contains a line break, and each answer is the trimmed
\* answer body without its line breaks and the whitespace runs following
\* them, nothing inserted.
C5_AnswerJoined ==
  /\ \A i \in 1..Len(qa_list) :
       \A k \in 1..Len(qa_list[i].answer) : qa_list[i].answer[k] # LF
  /\ \A i \in 1..Len(returned.value) :
       \A k \in 1..Len(returned.value[i].answer) : returned.value[i].answer[k] # LF
  /\ pc = "loop" =>
       \A i \in 1..Len(qa_list) :
         qa_list[i].answer = KeepFrom(Strip(Group3(content, matches[i])), 1)

C5_Witness ==
  /\ pc = "loop"
  /\ \E i \in 1..Len(qa_list) :
       LET t == Strip(Group3(content, matches[i]))
       IN /\ \E k \in 1..(Len(t) - 1) : t[k] = LF /\ IsSpace(t[k + 1])
          /\ Len(qa_list[i].answer) < Len(t)

\* ------------------------------------------------------------------ C6
NoSpan(s) == \A i \in 1..Len(s) : MatchAt(s, i).end = 0

MarkerColons(s) ==
  {p \in 1..Len(s) :
     /\ IsColon(s[p])
     /\ \E k \in 1..(p - 2) :
          /\ \A i \in (p - k)..(p - 1) : IsDigit(s[i])
          /\ s[p - k - 1] \in {"Q", "A"}}

SwapColon(s, p) == [s EXCEPT ![p] = IF s[p] = HW THEN FW ELSE HW]

\* C7: replacing the colon after any question or answer marker by the other
\* kind of colon leaves the output record list unchanged.
C7_SeparatorIndependence ==
  pc = "done" =>
    \A p \in MarkerColons(content) :
      Extract(SwapColon(content, p)) = returned.value

\* ------------------------------------------------------------------ C8
\* C8: when the input cannot be found or read, the process reports the
\* error and ends with a non-zero status; the destination file is left as
\* it was and nothing is returned, and nothing happens afterwards.
C8_UnreadableInputIsFatal ==
  [][ /\ (pc = "read" /\ inputState # "ok") =>
           /\ pc' = "exited"
           /\ exitStatus' # 0
           /\ printed' \in {"error", "traceback"}
           /\ outFile' = outFile
           /\ ~returned'.set
      /\ pc # "exited" ]_vars

C8_Witness ==
  /\ pc = "exited"
  /\ inputState = "missing"
  /\ printed = "error"
  /\ exitStatus = 1
  /\ outFile = OldFile
  /\ ~returned.set

\* ------------------------------------------------------------------ C9
\* the earliest record boundary at or after position p
Boundary(s, p) == Min({e \in p..(Len(s) + 1) : LookAhead(s, e)})

\* C9: the answer of every match is the text from right after the answer
\* separator up to the earliest record boundary (a blank line followed by a
\* question marker, two blank lines, or the end of the document).
C9_AnswerStopsAtBoundary ==
  \A i \in 1..Len(matches) :
    Strip(Group3(content, matches[i]))
      = Strip(SubSeq(content, matches[i].aSep,
                     Boundary(content, matches[i].aSep) - 1))

\* ----------------------------------------------------------------- C10
\* the digits of the answer markers A<digits><colon>
AnswerMarkerDigits(s) ==
  {p \in 1..Len(s) :
     /\ IsDigit(s[p])
     /\ IsColon(At(s, p + DigitRun(s, p)))
     /\ \E k \in 1..(p - 1) :
          /\ \A i \in k..(p - 1) : i > k => IsDigit(s[i])
          /\ s[k] = "A"}

\* C10: a record's id is the base-10 value of the digits of the question
\* marker that opened its match, and changing digits of an answer marker
\* leaves the output unchanged.
C10_IdFromQuestionMarker ==
  /\ pc = "loop" =>
       \A i \in 1..Len(qa_list) :
         /\ qa_list[i].id >= 0
         /\ content[matches[i].start] = "Q"
         /\ qa_list[i].id = IntOf(SubSeq(content, matches[i].start + 1,
                                         matches[i].start + DigitRun(content, matches[i].start + 1)))
  /\ pc = "done" =>
       \A p \in AnswerMarkerDigits(content) :
         \A d \in {"3", "7"} \ {content[p]} :
           Extract([content EXCEPT ![p] = d]) = returned.value

====
